---- MODULE Spec2Model ----
(***************************************************************************)
(* dotbot-autobot (autoconf.py): the staged-diff filter get_added_files,   *)
(* the manifest merge update_dotbot_conf with its backup / restore /       *)
(* cleanup around the rewrite, and the driver main.                        *)
(*                                                                         *)
(* Paths and file names are sequences of one-character strings, so that    *)
(* os.path.commonprefix, os.path.split, os.path.join and abspath are       *)
(* computed character by character as the library computes them.           *)
(***************************************************************************)
EXTENDS Integers, Sequences, FiniteSets, TLC

VARIABLES
    manifest,     \* content of config_file on disk, after the last run
    dir,          \* the files next to config_file: name suffix -> entry
    pc,           \* "idle": no run yet, or the last one forgotten; "done": the
                  \* variables below tell what the last run did
    added_files,  \* the added_files argument of update_dotbot_conf
    backup_file,  \* the local backup_file (suffix after config_file)
    new_task,     \* new_task['link']
    err,          \* what raised inside the try block: none/load/merge/write
    pending,      \* an exception is propagating out of update_dotbot_conf
    opened,       \* config_file was opened for writing by this run
    wroteOK,      \* yaml.dump completed in this run
    touched,      \* cp(config_file, backup_file) opened its destination
    outcome,      \* how update_dotbot_conf ended: none/returned/raised
    staged,       \* repo.index.add(config_file) was called in this run
    exitCode,     \* exit status of the process (-1 while running)
    preManifest,  \* manifest when the run started
    preDir,       \* dir when the run started
    again,        \* this call had the added_files of the call before it, which
                  \* had returned with nothing raised inside it
    initUnique,   \* the first manifest had manifest-wide unique targets
    f_patch,      \* get_added_files: patch.added_files
    f_dirs,       \* get_added_files: directories
    f_out,        \* get_added_files: the returned list
    f_done        \* get_added_files has been applied to f_patch, f_dirs

mainVars == <<manifest, dir, pc, added_files, backup_file, new_task,
              err, pending, opened, wroteOK, touched, outcome, staged, exitCode,
              preManifest, preDir, again, initUnique>>
filterVars == <<f_patch, f_dirs, f_out, f_done>>
vars == <<mainVars, filterVars>>

----------------------------------------------------------------------------
(* Bounds of the model *)

MaxTasks == 1   \* task entries in the manifest the first run finds
MaxAdded == 2   \* added files in one staged diff
MaxBak == 1     \* names of the probing chain at which a file may be left
MaxDirs == 1    \* watch directories on the command line

----------------------------------------------------------------------------
(* Strings *)

S_bashrc == <<"b", "a", "s", "h", "r", "c">>
S_vimrc == <<"v", "i", "m", "r", "c">>
S_vim_bashrc == <<"v", "i", "m", "/", "b", "a", "s", "h", "r", "c">>
S_vi == <<"v", "i">>
S_vim == <<"v", "i", "m">>
S_dot == <<".">>
S_tilde == <<"~">>
S_bak == <<".", "b", "a", "k">>
S_home == <<"/", "h">>
S_cwd == <<"/", "r">>

\* str(i) for the one-digit values the probing loop reaches in the model
str(i) == << <<"0", "1", "2", "3", "4", "5", "6", "7", "8", "9">>[i + 1] >>

Min(a, b) == IF a < b THEN a ELSE b

----------------------------------------------------------------------------
(* Path utilities: os.path on POSIX, and the helpers of autoconf.py *)

RECURSIVE SplitSlash(_)
\* str.split('/'): the pieces between the slashes, empty pieces included
SplitSlash(s) ==
    IF s = <<>> THEN << <<>> >>
    ELSE LET rest == SplitSlash(Tail(s)) IN
         IF Head(s) = "/" THEN << <<>> >> \o rest
         ELSE << <<Head(s)>> \o Head(rest) >> \o Tail(rest)

RECURSIVE JoinSlash(_)
\* '/'.join(comps)
JoinSlash(comps) ==
    IF comps = <<>> THEN <<>>
    ELSE IF Len(comps) = 1 THEN Head(comps)
    ELSE Head(comps) \o <<"/">> \o JoinSlash(Tail(comps))

StartsWith(s, c) == Len(s) >= 1 /\ s[1] = c

RECURSIVE NormComps(_, _, _)
\* the loop of posixpath.normpath over the split components
NormComps(comps, new_comps, initial_slashes) ==
    IF comps = <<>> THEN new_comps
    ELSE LET comp == Head(comps)
             n == Len(new_comps)
         IN  IF comp = <<>> \/ comp = S_dot
                 THEN NormComps(Tail(comps), new_comps, initial_slashes)
             ELSE IF \/ comp # <<".", ".">>
                     \/ (initial_slashes = 0 /\ n = 0)
                     \/ (n > 0 /\ new_comps[n] = <<".", ".">>)
                 THEN NormComps(Tail(comps), Append(new_comps, comp), initial_slashes)
             ELSE IF n > 0
                 THEN NormComps(Tail(comps), SubSeq(new_comps, 1, n - 1), initial_slashes)
             ELSE NormComps(Tail(comps), new_comps, initial_slashes)

normpath(path) ==
    IF path = <<>> THEN S_dot
    ELSE LET initial_slashes ==
                 IF ~StartsWith(path, "/") THEN 0
                 ELSE IF Len(path) >= 2 /\ path[2] = "/"
                         /\ ~(Len(path) >= 3 /\ path[3] = "/") THEN 2
                 ELSE 1
             joined == JoinSlash(NormComps(SplitSlash(path), <<>>, initial_slashes))
             out == [i \in 1..initial_slashes |-> "/"] \o joined
         IN  IF out = <<>> THEN S_dot ELSE out

\* os.path.abspath with the process's working directory S_cwd
abspath(path) ==
    normpath(IF StartsWith(path, "/") THEN path ELSE S_cwd \o <<"/">> \o path)

\* os.path.expanduser with HOME = S_home; "~user" names no user and is kept
expanduser(path) ==
    IF StartsWith(path, "~") /\ (Len(path) = 1 \/ path[2] = "/")
        THEN S_home \o SubSeq(path, 2, Len(path))
    ELSE path

\* expand_path = compose(os.path.abspath, os.path.expanduser)
expand_path(path) == abspath(expanduser(path))

\* os.path.split(f)[1]: what follows the last slash
basename(f) == LET c == SplitSlash(f) IN c[Len(c)]

\* os.path.join(a, b)
path_join(a, b) ==
    IF StartsWith(b, "/") THEN b
    ELSE IF a = <<>> \/ a[Len(a)] = "/" THEN a \o b
    ELSE a \o <<"/">> \o b

\* common_prefix(a, b) = os.path.commonprefix((a, b)): the longest common
\* prefix of the two strings, character by character
common_prefix(a, b) ==
    LET m == Min(Len(a), Len(b))
        n == CHOOSE k \in 0..m :
                 /\ \A j \in 1..k : a[j] = b[j]
                 /\ (k = m \/ a[k + 1] # b[k + 1])
    IN  SubSeq(a, 1, n)

\* truth value of a Python string
Truthy(s) == s # <<>>

\* tmap(f, xs) = tuple(map(f, xs)), here with f = expand_path
tmap_expand_path(xs) == [i \in DOMAIN xs |-> expand_path(xs[i])]

file_in_any(filename, directories) ==
    \E i \in DOMAIN directories : Truthy(common_prefix(filename, directories[i]))

get_added_files(patch_added, directories) ==
    LET dirs == tmap_expand_path(directories)
    IN  SelectSeq(patch_added, LAMBDA f : file_in_any(expand_path(f), dirs))

----------------------------------------------------------------------------
(* File contents and the manifest *)

\* a file holding a YAML list of task entries
Tasks(ts) == [kind |-> "tasks", tasks |-> ts]
\* a file yaml.load cannot parse
Invalid == [kind |-> "invalid", tasks |-> <<>>]
\* what a write that failed after open(..., 'w') leaves: the file cut short
Truncated == [kind |-> "truncated", tasks |-> <<>>]
\* the content of a file that is not a copy of the manifest
Foreign == [kind |-> "foreign", tasks |-> <<>>]

EmptyLink == [x \in {} |-> <<>>]
Link1(k, v) == [x \in {k} |-> v]
\* d[k] = v on a Python dict
SetItem(d, k, v) == [x \in DOMAIN d \cup {k} |-> IF x = k THEN v ELSE d[x]]

\* a task entry: {'link': {...}}, {'link': None}, or one without 'link'
LinkTask(l) == [kind |-> "link", link |-> l]
NullLinkTask == [kind |-> "linknull", link |-> EmptyLink]
OtherTask == [kind |-> "other", link |-> EmptyLink]

T_vimrc == LinkTask(Link1(S_tilde \o <<"/">> \o S_dot \o S_vimrc, S_vimrc))
T_bashrc == LinkTask(Link1(S_tilde \o <<"/">> \o S_dot \o S_bashrc, S_bashrc))
TaskPool == {T_vimrc, T_bashrc, OtherTask, NullLinkTask}

SeqsUpTo(S, n) == UNION {[1..k -> S] : k \in 0..n}

InitManifests == {Tasks(ts) : ts \in SeqsUpTo(TaskPool, MaxTasks)} \cup {Invalid}

Files == {S_bashrc, S_vimrc, S_vim_bashrc}
AddedLists == SeqsUpTo(Files, MaxAdded)

\* REPO_ROOT, and the default of the positional: the string itself, which
\* tmap then walks character by character
repo_root == S_dot
default_directories == [i \in 1..Len(repo_root) |-> <<repo_root[i]>>]
DirPool == {S_vim, S_vi, S_dot, S_tilde}
DirSeqs == SeqsUpTo(DirPool, MaxDirs) \cup {default_directories}

----------------------------------------------------------------------------
(* The directory of config_file: backup_file names, as suffixes *)

Absent == [exists |-> FALSE, readable |-> FALSE, content |-> Foreign]
File(c, r) == [exists |-> TRUE, readable |-> r, content |-> c]

RECURSIVE ChainName(_)
\* the k-th name the probing loop builds: ".bak", ".bak0", ".bak01", ...
ChainName(k) == IF k = 0 THEN S_bak ELSE ChainName(k - 1) \o str(k - 1)

BakNames == {ChainName(k) : k \in 0..MaxBak}

\* a name of the chain, the last one excepted, may hold a readable file or
\* one of mode 0200 (writable, not readable)
InitDirs ==
    {d \in [BakNames -> {Absent, File(Foreign, TRUE), File(Foreign, FALSE)}] :
        d[ChainName(MaxBak)] = Absent}

\* os.access(name, os.R_OK)
access_R_OK(d, name) == d[name].exists /\ d[name].readable

RECURSIVE probe(_, _, _)
\* lines 78-82: the while loop choosing backup_file
probe(d, name, i) ==
    IF access_R_OK(d, name) THEN probe(d, name \o str(i), i + 1) ELSE name

----------------------------------------------------------------------------
(* The merge of update_dotbot_conf *)

\* line 94-95 raise TypeError when a task has 'link': None
links_to_raises(tasks) == \E i \in DOMAIN tasks : tasks[i].kind = "linknull"

\* lines 94-95 with only the newest task entry scanned
links_to_newest(tasks) ==
    IF tasks # <<>> /\ tasks[Len(tasks)].kind = "link"
        THEN DOMAIN tasks[Len(tasks)].link
    ELSE {}

\* lines 94-95: every key of every task's 'link' mapping
links_to(tasks) ==
    UNION {DOMAIN tasks[i].link : i \in {j \in DOMAIN tasks : tasks[j].kind = "link"}}

\* line 99
links_from(added) == [i \in DOMAIN added |-> S_dot \o basename(added[i])]

\* lines 101-103 with the membership test dropped
add_link_always(nt, lt, link_from) ==
    SetItem(nt, path_join(S_tilde, link_from), link_from)

\* lines 101-103: one pass of the loop body
add_link(nt, lt, link_from) ==
    LET link_to == path_join(S_tilde, link_from)
    IN  IF link_to \notin lt THEN SetItem(nt, link_to, link_from) ELSE nt

RECURSIVE merge_loop(_, _, _)
\* lines 100-104
merge_loop(lf, lt, nt) ==
    IF lf = <<>> THEN nt
    ELSE merge_loop(Tail(lf), lt, add_link(nt, lt, Head(lf)))

\* line 108 with the new task put first
prepend_task(tasks, nt) == <<LinkTask(nt)>> \o tasks

\* line 108: tasks.append(new_task)
append_task(tasks, nt) == Append(tasks, LinkTask(nt))

----------------------------------------------------------------------------
(* update_dotbot_conf, lines 68-116: the state of one call, block by block *)

CopyFaults == {"none", "open", "mid"}

\* lines 78-84: the probe and cp(config_file, backup_file), outside the try.
\* cp (shutil.copy2) may fail before it opens the destination, which then is
\* as it was, or while it writes, which leaves the destination cut short;
\* either way the exception leaves the function at line 83.
backup_block(m, d, fb) ==
    LET b == probe(d, S_bak, 0)
        s == [manifest |-> m, dir |-> d, backup_file |-> b, new_task |-> EmptyLink,
              err |-> "none", pending |-> FALSE, opened |-> FALSE, wroteOK |-> FALSE,
              touched |-> FALSE, outcome |-> "none"]
    IN  CASE fb = "none" ->
                [s EXCEPT !.dir = [d EXCEPT ![b] = File(m, TRUE)], !.touched = TRUE]
          [] fb = "open" ->
                [s EXCEPT !.pending = TRUE, !.outcome = "raised"]
          [] fb = "mid" ->
                [s EXCEPT !.dir = [d EXCEPT ![b] =
                                     File(Truncated, IF d[b].exists THEN d[b].readable
                                                     ELSE TRUE)],
                          !.touched = TRUE, !.pending = TRUE, !.outcome = "raised"]

\* lines 108-110: append and dump; open may fail, or the write may fail
\* after open(config_file, 'w') has truncated the file
write_block(s, fw) ==
    CASE fw = "none" ->
            [s EXCEPT !.manifest = Tasks(append_task(s.manifest.tasks, s.new_task)),
                      !.opened = TRUE, !.wroteOK = TRUE]
      [] fw = "open" ->
            [s EXCEPT !.err = "write"]
      [] fw = "mid" ->
            [s EXCEPT !.manifest = Truncated, !.opened = TRUE, !.err = "write"]

\* lines 86-110: the body of the try
try_block(s, added, fw) ==
    IF s.manifest.kind # "tasks" THEN [s EXCEPT !.err = "load"]
    ELSE IF links_to_raises(s.manifest.tasks) THEN [s EXCEPT !.err = "merge"]
    ELSE LET nt == merge_loop(links_from(added), links_to(s.manifest.tasks), EmptyLink)
             merged == [s EXCEPT !.new_task = nt]
         IN  IF DOMAIN nt # {} THEN write_block(merged, fw) ELSE merged

\* lines 112-114: cp(backup_file, config_file), which may fail as any copy;
\* nothing re-raises err
except_block(s, fr) ==
    CASE fr = "none" -> [s EXCEPT !.manifest = s.dir[s.backup_file].content]
      [] fr = "open" -> [s EXCEPT !.pending = TRUE]
      [] fr = "mid" -> [s EXCEPT !.manifest = Truncated, !.pending = TRUE]

\* lines 115-116, then the return, or the exception of line 114 going on
finally_block(s) ==
    [s EXCEPT !.dir = [s.dir EXCEPT ![s.backup_file] = Absent],
              !.outcome = IF s.pending THEN "raised" ELSE "returned"]

update_dotbot_conf(m, d, added, fb, fw, fr) ==
    LET copied == backup_block(m, d, fb)
    IN  IF copied.pending THEN copied
        ELSE LET tried == try_block(copied, added, fw)
                 handled == IF tried.err # "none" THEN except_block(tried, fr)
                            ELSE tried
             IN  finally_block(handled)

----------------------------------------------------------------------------
(* Initial states *)

Unique(ts) ==
    \A i, j \in {k \in DOMAIN ts : ts[k].kind = "link"} :
        i # j => DOMAIN ts[i].link \cap DOMAIN ts[j].link = {}

NoRunYet ==
    /\ pc = "idle"
    /\ added_files = <<>>
    /\ backup_file = S_bak
    /\ new_task = EmptyLink
    /\ err = "none"
    /\ pending = FALSE
    /\ opened = FALSE
    /\ wroteOK = FALSE
    /\ touched = FALSE
    /\ outcome = "none"
    /\ staged = FALSE
    /\ exitCode = -1
    /\ again = FALSE

FilterIdle ==
    /\ f_patch = <<>>
    /\ f_dirs = <<>>
    /\ f_out = <<>>
    /\ f_done = FALSE

Init ==
    /\ manifest \in InitManifests
    /\ dir \in InitDirs
    /\ NoRunYet
    /\ preManifest = manifest
    /\ preDir = dir
    /\ initUnique = Unique(manifest.tasks)
    /\ FilterIdle

----------------------------------------------------------------------------
(* One run of the program per action: main, lines 139-154 *)

\* line 148 over every staged diff and every command line of the model
AddedByMain == {get_added_files(patch, directories) :
                    patch \in AddedLists, directories \in DirSeqs}

\* the faults of the three file operations; one that follows a failed
\* backup copy cannot happen
FaultSchedules ==
    {f \in CopyFaults \X CopyFaults \X CopyFaults :
        f[1] # "none" => (f[2] = "none" /\ f[3] = "none")}

\* a failed copy may leave a file only while the chain of names has room
Room(d, fb) == fb = "mid" => probe(d, S_bak, 0) # ChainName(MaxBak)

\* lines 150-152: update_dotbot_conf, then repo.index.add once it returned;
\* an exception it raises ends the process with status 1
Update(a, f) ==
    \E r \in {update_dotbot_conf(manifest, dir, a, f[1], f[2], f[3])} :
        /\ Room(dir, f[1])
        /\ pc' = "done"
        /\ added_files' = a
        /\ manifest' = r.manifest
        /\ dir' = r.dir
        /\ backup_file' = r.backup_file
        /\ new_task' = r.new_task
        /\ err' = r.err
        /\ pending' = r.pending
        /\ opened' = r.opened
        /\ wroteOK' = r.wroteOK
        /\ touched' = r.touched
        /\ outcome' = r.outcome
        /\ staged' = (r.outcome = "returned")
        /\ exitCode' = IF r.outcome = "returned" THEN 0 ELSE 1
        /\ preManifest' = manifest
        /\ preDir' = dir

NotCalled ==
    /\ added_files' = <<>>
    /\ backup_file' = S_bak
    /\ new_task' = EmptyLink
    /\ err' = "none"
    /\ pending' = FALSE
    /\ opened' = FALSE
    /\ wroteOK' = FALSE
    /\ touched' = FALSE
    /\ outcome' = "none"
    /\ staged' = FALSE
    /\ preManifest' = manifest
    /\ preDir' = dir
    /\ again' = FALSE
    /\ UNCHANGED <<manifest, dir>>

\* lines 146-148: repo.diff('HEAD') raises in a repository without HEAD
Main_NoHistory ==
    /\ pc = "idle"
    /\ pc' = "done"
    /\ NotCalled
    /\ exitCode' = 1
    /\ UNCHANGED <<initUnique, filterVars>>

\* lines 148-149, 153-154: the filter leaves no added file
Main_Nothing ==
    /\ pc = "idle"
    /\ <<>> \in AddedByMain
    /\ pc' = "done"
    /\ NotCalled
    /\ exitCode' = 0
    /\ UNCHANGED <<initUnique, filterVars>>

\* lines 148-152 with any staged diff
Main_Update ==
    /\ pc = "idle"
    /\ \E a \in AddedByMain \ {<<>>}, f \in FaultSchedules : Update(a, f)
    /\ again' = FALSE
    /\ UNCHANGED <<initUnique, filterVars>>

\* the program run again on the same staged diff, right after a run
Main_Again ==
    /\ pc = "done"
    /\ outcome # "none"
    /\ \E f \in FaultSchedules : Update(added_files, f)
    /\ again' = (outcome = "returned" /\ err = "none")
    /\ UNCHANGED <<initUnique, filterVars>>

\* the process is gone; the disk stays
Forget ==
    /\ pc = "done"
    /\ pc' = "idle"
    /\ NotCalled
    /\ exitCode' = -1
    /\ UNCHANGED <<initUnique, filterVars>>

Next ==
    \/ Main_NoHistory
    \/ Main_Nothing
    \/ Main_Update
    \/ Main_Again
    \/ Forget

Spec == Init /\ [][Next]_vars

----------------------------------------------------------------------------
(* get_added_files on its own: inputs drawn, then the function applied *)

MainIdle ==
    /\ manifest = Invalid
    /\ dir = [n \in BakNames |-> Absent]
    /\ NoRunYet
    /\ preManifest = manifest
    /\ preDir = dir
    /\ initUnique = FALSE

FilterInit ==
    /\ MainIdle
    /\ f_patch \in AddedLists
    /\ f_dirs \in DirSeqs
    /\ f_out = <<>>
    /\ f_done = FALSE

Filter_Apply ==
    /\ ~f_done
    /\ f_out' = get_added_files(f_patch, f_dirs)
    /\ f_done' = TRUE
    /\ UNCHANGED <<f_patch, f_dirs, mainVars>>

Filter_Again ==
    /\ f_done
    /\ f_patch' \in AddedLists
    /\ f_dirs' \in DirSeqs
    /\ f_out' = <<>>
    /\ f_done' = FALSE
    /\ UNCHANGED mainVars

FilterNext == Filter_Apply \/ Filter_Again

SpecFilter == FilterInit /\ [][FilterNext]_vars

----------------------------------------------------------------------------
(* The claims *)

\* what follows the last slash of f, found by position
LastComponent(f) ==
    LET slashes == {i \in DOMAIN f : f[i] = "/"}
        from == IF slashes = {} THEN 1
                ELSE 1 + CHOOSE i \in slashes : \A j \in slashes : j <= i
    IN  SubSeq(f, from, Len(f))

\* the link target the specification derives from an added file
Target(f) == <<"~", "/", ".">> \o LastComponent(f)

\* the non-empty components of an absolute path
Components(path) == SelectSeq(SplitSlash(path), LAMBDA c : c # <<>>)

\* path lies under directory, whole components compared
IsUnder(path, directory) ==
    LET d == Components(directory)
        f == Components(path)
    IN  Len(d) <= Len(f) /\ SubSeq(f, 1, Len(d)) = d

Ran == pc = "done" /\ outcome # "none"

\* C1: a call of update_dotbot_conf that follows, with the same added-file
\* list, a call that returned with nothing raised inside it derives no new
\* link entry, does not open the manifest for writing and leaves the
\* manifest as the first call left it.
C1_Idempotent ==
    (Ran /\ again) =>
        /\ DOMAIN new_task = {}
        /\ ~opened
        /\ ~wroteOK
        /\ manifest = preManifest

\* C1's case: the second call finds the entry the first call appended
C1_Witness ==
    /\ Ran /\ again /\ outcome = "returned"
    /\ preManifest.kind = "tasks"
    /\ Len(preManifest.tasks) >= 2
    /\ \E i \in DOMAIN added_files :
          LET last == preManifest.tasks[Len(preManifest.tasks)]
          IN  /\ last.kind = "link"
              /\ Target(added_files[i]) \in DOMAIN last.link
              /\ last.link[Target(added_files[i])] = S_dot \o LastComponent(added_files[i])

\* C2: when update_dotbot_conf returns, the task entries the manifest had
\* before the call are all there, in their positions and unchanged, followed
\* by at most one new entry, which is a link task; a manifest that held no
\* task list is as it was.
C2_NoClobber ==
    (Ran /\ outcome = "returned") =>
        IF preManifest.kind = "tasks"
            THEN /\ manifest.kind = "tasks"
                 /\ LET old == preManifest.tasks
                        now == manifest.tasks
                    IN  \/ now = old
                        \/ /\ Len(now) = Len(old) + 1
                           /\ SubSeq(now, 1, Len(old)) = old
                           /\ now[Len(now)].kind = "link"
        ELSE manifest = preManifest

\* C2's case: a call appended a task to a manifest that had entries
C2_Witness ==
    /\ Ran /\ outcome = "returned" /\ wroteOK
    /\ Len(preManifest.tasks) >= 1
    /\ Len(manifest.tasks) = Len(preManifest.tasks) + 1

\* C3: when the write of the manifest failed, then at the end of the call
\* the manifest is what it was before the call and the backup file is gone.
C3_CrashSafe ==
    (Ran /\ err = "write") =>
        /\ manifest = preManifest
        /\ ~dir[backup_file].exists

\* The part of C3 the code keeps: when the write failed and the copy back
\* from the backup succeeded, the manifest is what it was and the backup is
\* gone.
RestoredWhenCopyBackSucceeds ==
    (Ran /\ err = "write" /\ ~pending) =>
        /\ outcome = "returned"
        /\ manifest = preManifest
        /\ ~dir[backup_file].exists

\* C4: main stages the manifest only in a run that wrote new link entries;
\* a run that finds no added file leaves the manifest alone and unstaged.
C4_StageOnlyOnChange ==
    /\ (pc = "done" /\ staged) => wroteOK
    /\ (pc = "done" /\ outcome = "none") => (~staged /\ manifest = preManifest)

\* C5: get_added_files returns, in their order, exactly the added files
\* whose absolute path lies, component by component, under a watch
\* directory, and all of them when there is no watch directory.
C5_FilterCorrect ==
    f_done =>
        f_out = SelectSeq(f_patch, LAMBDA F :
                    \/ f_dirs = <<>>
                    \/ \E i \in DOMAIN f_dirs :
                          IsUnder(expand_path(F), expand_path(f_dirs[i])))

\* C6: the task a call appended maps, for every added file whose target was
\* not in the manifest (the first of those sharing a target), the target
\* '~/.' + base name to the added file's path.
C6_NewLinkContent ==
    (Ran /\ wroteOK) =>
        \A i \in DOMAIN added_files :
            LET t == Target(added_files[i])
                last == manifest.tasks[Len(manifest.tasks)]
            IN  (/\ t \notin links_to(preManifest.tasks)
                 /\ \A j \in 1..(i - 1) : Target(added_files[j]) # t)
                => (t \in DOMAIN last.link /\ last.link[t] = added_files[i])

\* C7: when loading or writing the manifest failed inside
\* update_dotbot_conf, the call raises and main ends with a non-zero status.
C7_FailureReported ==
    (Ran /\ err \in {"load", "write"}) => (outcome = "raised" /\ exitCode # 0)

\* C8: a manifest whose link targets were unique manifest-wide before the
\* first run has manifest-wide unique link targets after every run.
C8_TargetsUnique ==
    (initUnique /\ manifest.kind = "tasks") => Unique(manifest.tasks)

\* C8's case: a call met an added file whose target sits in an older task
\* entry and not in the newest one
C8_Witness ==
    /\ Ran /\ initUnique /\ outcome = "returned" /\ err = "none"
    /\ preManifest.kind = "tasks"
    /\ \E i \in DOMAIN added_files :
          Target(added_files[i]) \in
              links_to(preManifest.tasks) \ links_to_newest(preManifest.tasks)

\* C9: once update_dotbot_conf has returned or raised, the backup file it
\* made is gone, and the manifest is either as before the call or as before
\* the call with the new task appended.
C9_BackupCleanup ==
    Ran =>
        /\ touched => ~dir[backup_file].exists
        /\ \/ manifest = preManifest
           \/ /\ wroteOK
              /\ preManifest.kind = "tasks"
              /\ manifest = Tasks(Append(preManifest.tasks, LinkTask(new_task)))

\* C10: the path the backup goes to held no file before the call, and every
\* file that was there before the call is there after it, unchanged.
C10_NoCollision ==
    Ran =>
        /\ ~preDir[backup_file].exists
        /\ \A n \in BakNames : preDir[n].exists => dir[n] = preDir[n]

====
